---- MODULE Spec2Model ----
(***************************************************************************)
(* Product service of python-testing-bootcamp (src/src/main.py): one       *)
(* document collection of products behind a REST surface and a GraphQL     *)
(* surface, with API-key and JWT bearer gating of the mutations.           *)
(*                                                                         *)
(* State: products (the collection, ObjectId -> document), nextId (the     *)
(* next ObjectId the store assigns), clock, issued (the session tokens the *)
(* client holds), and the request being served: req (its inputs), resp     *)
(* (its response), calls (the collection calls it issued) and before (the  *)
(* collection as the request found it).  known and gone record what the    *)
(* responses received so far have told the client: the product last        *)
(* acknowledged under each identifier, and the identifiers acknowledged    *)
(* as deleted.                                                             *)
(*                                                                         *)
(* Text values that the code inspects character by character (product      *)
(* names, identifier strings) are sequences of one-character strings.      *)
(* Prices are whole numbers; the clock counts minutes.                     *)
(***************************************************************************)
EXTENDS Integers, Sequences, FiniteSets, TLC

VARIABLES products, nextId, clock, issued, req, resp, calls, before, known, gone

vars == <<products, nextId, clock, issued, req, resp, calls, before, known, gone>>

(***************************************************************************)
(* Bounds of the model.                                                    *)
(***************************************************************************)
MaxId == 2          \* documents ever inserted in one behaviour
MaxTokens == 1      \* session tokens the client keeps from logins
MaxClock == 40      \* last minute the clock reaches
TickStep == 10      \* minutes between two observations of the clock
MaxAxes == 2        \* axes a list request of SpecList gives (see ListParams)

(***************************************************************************)
(* Program constants.                                                      *)
(***************************************************************************)
SECRET_KEY == "super-secret-key"
ACCESS_TOKEN_EXPIRE_MINUTES == 30
VALID_API_KEYS == {"secret123", "topkey456"}
NAME_MIN_LENGTH == 2
NAME_MAX_LENGTH == 80
OBJECT_ID_HEX_LENGTH == 24

\* pwd_context.hash / pwd_context.verify: a hash is compared, never the password.
pwd_hash(password) == <<"bcrypt", password>>

fake_users_db == [u \in {"alice"} |-> [username |-> "alice", hashed_password |-> pwd_hash("wonderland")]]

verify_password(plain_password, hashed_password) == pwd_hash(plain_password) = hashed_password

\* Returns <<>> for None, <<username>> otherwise.
authenticate_user(username, password) ==
    IF username \notin DOMAIN fake_users_db THEN <<>>
    ELSE IF ~verify_password(password, fake_users_db[username].hashed_password) THEN <<>>
    ELSE <<fake_users_db[username].username>>

(***************************************************************************)
(* JSON web tokens.  A token string is modelled by what decoding can learn *)
(* from it: whether it parses at all, the key that signed it, and the      *)
(* claims sub and exp.  sub = "" stands for a missing or empty subject.    *)
(***************************************************************************)
jwt_encode(claims, key) == [decodable |-> TRUE, key |-> key, sub |-> claims.sub, exp |-> claims.exp]

\* Faulty variant: the signature is not verified.
jwt_decode_unverified(token, key, now) ==
    IF ~token.decodable THEN <<>>
    ELSE IF token.exp < now THEN <<>>
    ELSE <<[sub |-> token.sub, exp |-> token.exp]>>

\* Faulty variant: the expiry is not checked.
jwt_decode_no_expiry(token, key, now) ==
    IF ~token.decodable THEN <<>>
    ELSE IF token.key # key THEN <<>>
    ELSE <<[sub |-> token.sub, exp |-> token.exp]>>

\* jwt.decode: <<>> for JWTError (malformed, bad signature, exp < now), else <<payload>>.
jwt_decode(token, key, now) ==
    IF ~token.decodable THEN <<>>
    ELSE IF token.key # key THEN <<>>
    ELSE IF token.exp < now THEN <<>>
    ELSE <<[sub |-> token.sub, exp |-> token.exp]>>

create_access_token(data, now) ==
    jwt_encode([sub |-> data.sub, exp |-> now + ACCESS_TOKEN_EXPIRE_MINUTES], SECRET_KEY)

GarbageToken == [decodable |-> FALSE, key |-> "", sub |-> "", exp |-> 0]

(***************************************************************************)
(* Authorization header: absent, or "<scheme> <token>".                    *)
(***************************************************************************)
NoHeader == [present |-> FALSE, scheme |-> "", token |-> GarbageToken]
Header(scheme, token) == [present |-> TRUE, scheme |-> scheme, token |-> token]

\* str.lower() on the scheme and order words the requests carry.
LowerWord == [w \in {"Bearer", "bearer", "BEARER", "Basic", "", "asc", "desc", "ASC", "DESC", "Desc", "up"} |->
                CASE w \in {"Bearer", "bearer", "BEARER"} -> "bearer"
                  [] w = "Basic" -> "basic"
                  [] w \in {"asc", "ASC"} -> "asc"
                  [] w \in {"desc", "DESC", "Desc"} -> "desc"
                  [] OTHER -> w]

\* [ok |-> TRUE, username] or [ok |-> FALSE] (HTTPException 401).
require_bearer_username_from_request(authorization, now) ==
    IF ~authorization.present \/ LowerWord[authorization.scheme] # "bearer"
    THEN [ok |-> FALSE, username |-> "", detail |-> "Missing or invalid Authorization header"]
    ELSE LET payload == jwt_decode(authorization.token, SECRET_KEY, now)
         IN IF payload = <<>>
            THEN [ok |-> FALSE, username |-> "", detail |-> "Invalid token"]
            ELSE IF payload[1].sub = ""
            THEN [ok |-> FALSE, username |-> "", detail |-> "Invalid token payload"]
            ELSE [ok |-> TRUE, username |-> payload[1].sub, detail |-> ""]

\* Faulty variant: any key that is present passes.
verify_api_key_any_present(api_key) == api_key # <<>>

\* api_key is <<>> when the header is absent (None), <<value>> otherwise.
verify_api_key(api_key) == api_key # <<>> /\ api_key[1] \in VALID_API_KEYS

(***************************************************************************)
(* Product bodies and the Product model's field constraints.               *)
(***************************************************************************)
Product(body) ==
    /\ Len(body.name) >= NAME_MIN_LENGTH
    /\ Len(body.name) <= NAME_MAX_LENGTH
    /\ body.price >= 0

(***************************************************************************)
(* ObjectId <-> 24-digit hexadecimal string.                               *)
(***************************************************************************)
HexDigits == <<"0", "1", "2", "3", "4", "5", "6", "7", "8", "9", "a", "b", "c", "d", "e", "f">>

HexValue(c) ==
    IF \E i \in 1..16 : HexDigits[i] = c THEN (CHOOSE i \in 1..16 : HexDigits[i] = c) - 1
    ELSE IF c \in {"A", "B", "C", "D", "E", "F"}
    THEN CASE c = "A" -> 10 [] c = "B" -> 11 [] c = "C" -> 12
           [] c = "D" -> 13 [] c = "E" -> 14 [] c = "F" -> 15
    ELSE -1

\* str(ObjectId): 24 lower-case hex digits, most significant first.
RECURSIVE HexOf(_, _)
HexOf(n, width) ==
    IF width = 0 THEN <<>>
    ELSE Append(HexOf(n \div 16, width - 1), HexDigits[(n % 16) + 1])

ObjectIdStr(oid) == HexOf(oid, OBJECT_ID_HEX_LENGTH)

\* Faulty variant: only the length is checked.
ObjectIdIsValid_length_only(s) == Len(s) = OBJECT_ID_HEX_LENGTH

\* ObjectId(s) raises unless s is 24 hexadecimal digits.
ObjectIdIsValid(s) ==
    /\ Len(s) = OBJECT_ID_HEX_LENGTH
    /\ \A i \in 1..Len(s) : HexValue(s[i]) >= 0

RECURSIVE HexParse(_, _)
HexParse(s, acc) ==
    IF s = <<>> THEN acc ELSE HexParse(Tail(s), acc * 16 + HexValue(Head(s)))

ObjectId(s) == HexParse(s, 0)

(***************************************************************************)
(* The document collection (the Mongo collection testing_db.products).     *)
(***************************************************************************)
insert_one(col, oid, doc) == col @@ (oid :> doc)

update_one_matched(col, oid) == IF oid \in DOMAIN col THEN 1 ELSE 0

\* Faulty variant: the price is left out of the $set.
update_one_name_only(col, oid, fields) ==
    IF oid \in DOMAIN col THEN [col EXCEPT ![oid].name = fields.name] ELSE col

\* {"$set": {"name": ..., "price": ...}} on the document with _id = oid.
update_one(col, oid, fields) ==
    IF oid \in DOMAIN col
    THEN [col EXCEPT ![oid].name = fields.name, ![oid].price = fields.price]
    ELSE col

delete_one_deleted(col, oid) == IF oid \in DOMAIN col THEN 1 ELSE 0

delete_one(col, oid) == [d \in (DOMAIN col) \ {oid} |-> col[d]]

(***************************************************************************)
(* Text helpers.                                                           *)
(***************************************************************************)
UpperToLower == [c \in {"A", "B", "C", "D", "E", "F"} |->
                   CASE c = "A" -> "a" [] c = "B" -> "b" [] c = "C" -> "c"
                     [] c = "D" -> "d" [] c = "E" -> "e" [] c = "F" -> "f"]

LowerChar(c) == IF c \in DOMAIN UpperToLower THEN UpperToLower[c] ELSE c

\* Code points of the characters product names are built from.
CharCode(c) ==
    CASE c = " " -> 32 [] c = "." -> 46 [] c = "A" -> 65 [] c = "C" -> 67
      [] c = "a" -> 97 [] c = "b" -> 98 [] c = "c" -> 99 [] c = "d" -> 100
      [] OTHER -> 120

\* s < t in the binary order of strings.
RECURSIVE StrLess(_, _)
StrLess(s, t) ==
    IF t = <<>> THEN FALSE
    ELSE IF s = <<>> THEN TRUE
    ELSE IF CharCode(Head(s)) # CharCode(Head(t)) THEN CharCode(Head(s)) < CharCode(Head(t))
    ELSE StrLess(Tail(s), Tail(t))

\* {"$regex": pattern, "$options": "i"}: an unanchored, case-insensitive search.
\* Patterns are made of literal characters and the wildcard ".".
RegexCharMatches(p, c) == p = "." \/ LowerChar(p) = LowerChar(c)

RegexSearch(pattern, text) ==
    \E i \in 1..(Len(text) - Len(pattern) + 1) :
        \A k \in 1..Len(pattern) : RegexCharMatches(pattern[k], text[i + k - 1])

(***************************************************************************)
(* List requests: the query document, find / sort / skip / limit.          *)
(***************************************************************************)
SORTABLE_FIELDS == {"name", "price"}
LIMIT_DEFAULT == 100
LIMIT_MIN == 1
LIMIT_MAX == 200
SKIP_MIN == 0
SKIP_MAX == 10000

\* `if name_contains:` is false for None and for the empty string.
Truthy(opt) == opt # <<>> /\ opt[1] # <<>>

\* The Mongo query built from the three optional filters (<<>> is None).
BuildQuery(name_contains, min_price, max_price) ==
    [name |-> IF Truthy(name_contains) THEN name_contains ELSE <<>>,
     gte  |-> min_price,
     lte  |-> max_price]

\* Faulty variant: the lower bound is exclusive ($gt for $gte).
QueryMatches_exclusive(query, doc) ==
    /\ query.name = <<>> \/ RegexSearch(query.name[1], doc.name)
    /\ query.gte = <<>> \/ doc.price > query.gte[1]
    /\ query.lte = <<>> \/ doc.price <= query.lte[1]

QueryMatches(query, doc) ==
    /\ query.name = <<>> \/ RegexSearch(query.name[1], doc.name)
    /\ query.gte = <<>> \/ doc.price >= query.gte[1]
    /\ query.lte = <<>> \/ doc.price <= query.lte[1]

SortKeyLess(col, sort_by, a, b) ==
    IF sort_by = "name" THEN StrLess(col[a].name, col[b].name)
    ELSE col[a].price < col[b].price

\* The orders in which the cursor may deliver `ids`: sorted on the key in the
\* given direction, documents with equal keys in any order.
CursorOrders(col, ids, sort_by, sort_dir) ==
    { s \in [1..Cardinality(ids) -> ids] :
        /\ \A i, j \in DOMAIN s : i # j => s[i] # s[j]
        /\ \A i, j \in DOMAIN s : i < j =>
              IF sort_dir = 1 THEN ~SortKeyLess(col, sort_by, s[j], s[i])
              ELSE ~SortKeyLess(col, sort_by, s[i], s[j]) }

Min2(a, b) == IF a < b THEN a ELSE b

\* cursor.skip(skip).limit(limit) over an ordered delivery.
Page(order, skip, limit) == SubSeq(order, skip + 1, Min2(Len(order), skip + limit))

find_matching(col, query) == { d \in DOMAIN col : QueryMatches(query, col[d]) }

(***************************************************************************)
(* Responses.                                                              *)
(***************************************************************************)
Response(status, kind, raised) ==
    [status |-> status, kind |-> kind, raised |-> raised, success |-> FALSE,
     id |-> <<>>, items |-> <<>>, token |-> <<>>]


(***************************************************************************)
(* Inputs of the requests.                                                 *)
(***************************************************************************)
Bodies ==
    { [name |-> <<"A", "b">>, price |-> 1],
      [name |-> <<"c", "d">>, price |-> 2],
      [name |-> <<>>, price |-> -1] }

\* X-API-Key: <<>> when the header is absent, <<value>> otherwise.
ApiKeys == { <<>>, <<"">>, <<"secret123">>, <<"topkey456">>, <<"SECRET123">> }

NonHexId == [i \in 1..OBJECT_ID_HEX_LENGTH |-> IF i = OBJECT_ID_HEX_LENGTH THEN "g" ELSE "0"]

IdStrings ==
    { ObjectIdStr(i) : i \in 0..MaxId } \cup { <<"n", "o", "p", "e">>, NonHexId }

Logins == { <<"alice", "wonderland">>, <<"alice", "rabbit">>, <<"bob", "wonderland">> }

\* Tokens a client can put after the scheme besides those it was issued.
ForeignTokens(now) ==
    { GarbageToken,
      jwt_encode([sub |-> "bob", exp |-> now + ACCESS_TOKEN_EXPIRE_MINUTES], SECRET_KEY),
      jwt_encode([sub |-> "alice", exp |-> now + ACCESS_TOKEN_EXPIRE_MINUTES], "another-key"),
      jwt_encode([sub |-> "", exp |-> now + ACCESS_TOKEN_EXPIRE_MINUTES], SECRET_KEY),
      jwt_encode([sub |-> "alice", exp |-> now - 1], SECRET_KEY) }

Headers ==
    { NoHeader, Header("Basic", GarbageToken) }
      \cup { Header("Bearer", t) : t \in ForeignTokens(clock) }
      \cup { Header(s, i.token) : s \in {"Bearer", "bearer"}, i \in issued }

\* Parameters of a list request; an absent parameter carries its default.
DefaultParams ==
    [limit |-> LIMIT_DEFAULT, skip |-> 0, sort_by |-> "name", order |-> "asc",
     name_contains |-> <<>>, min_price |-> <<>>, max_price |-> <<>>]

PriceBounds == { <<>>, <<-1>>, <<1>>, <<2>> }

AllListParams ==
    [limit : {0, 1, LIMIT_DEFAULT, LIMIT_MAX, LIMIT_MAX + 1},
     skip : {-1, 0, 1, SKIP_MAX + 1},
     sort_by : {"name", "price", "_id"},
     order : {"asc", "desc", "DESC", "up"},
     name_contains : { <<>>, << <<>> >>, << <<"b">> >>, << <<"C">> >>, << <<".">> >>,
                       << <<" ", " ">> >> },
     min_price : PriceBounds,
     max_price : PriceBounds]

\* The axes of a list request: each paging or sorting parameter, the name
\* filter, and the price range (its two bounds together).
GivenAxes(p) ==
    { f \in {"limit", "skip", "sort_by", "order", "name_contains"} : p[f] # DefaultParams[f] }
      \cup (IF p.min_price # <<>> \/ p.max_price # <<>> THEN {"price"} ELSE {})

\* The list requests that give at most k axes.
ListParams(k) == { p \in AllListParams : Cardinality(GivenAxes(p)) <= k }

SingleListParams == ListParams(1)
WideListParams == ListParams(MaxAxes)

NoRequest == [op |-> "none"]
NoResponse == Response(0, "none", FALSE)

(***************************************************************************)
(* Initial state: an empty collection, no request served yet.              *)
(***************************************************************************)
Init ==
    /\ products = << >>
    /\ nextId = 1
    /\ clock = 0
    /\ issued = {}
    /\ req = NoRequest
    /\ resp = NoResponse
    /\ calls = <<>>
    /\ before = << >>
    /\ known = << >>
    /\ gone = {}

\* The server handles one request at a time to completion; the request and its
\* response live until the response has been sent (Complete).
Idle == req = NoRequest

\* A request that fails before the collection is used.
Reject(request, response) ==
    /\ req' = request
    /\ resp' = response
    /\ calls' = <<>>
    /\ before' = products
    /\ UNCHANGED <<known, gone, products, nextId, clock, issued>>

(***************************************************************************)
(* POST /token                                                             *)
(***************************************************************************)
login(username, password) ==
    LET request == [op |-> "login", username |-> username, password |-> password, at |-> clock]
        user == authenticate_user(username, password)
    IN IF user = <<>>
       THEN Reject(request, Response(400, "AuthenticationFailed", TRUE))
       ELSE LET token == create_access_token([sub |-> user[1]], clock)
            IN /\ Cardinality(issued \cup {[token |-> token, at |-> clock]}) <= MaxTokens
               /\ issued' = issued \cup {[token |-> token, at |-> clock]}
               /\ req' = request
               /\ resp' = [Response(200, "OK", FALSE) EXCEPT !.token = <<token>>]
               /\ calls' = <<>>
               /\ before' = products
               /\ UNCHANGED <<known, gone, products, nextId, clock>>

(***************************************************************************)
(* POST /products (public)                                                 *)
(***************************************************************************)
create_product(product) ==
    LET request == [op |-> "create_product", product |-> product]
    IN IF ~Product(product)
       THEN Reject(request, Response(422, "ValidationError", TRUE))
       ELSE /\ nextId <= MaxId
            /\ products' = insert_one(products, nextId, [name |-> product.name, price |-> product.price])
            /\ nextId' = nextId + 1
            /\ req' = request
            /\ resp' = [Response(200, "OK", FALSE) EXCEPT !.id = ObjectIdStr(nextId)]
            /\ calls' = <<"insert_one">>
            /\ before' = products
            /\ UNCHANGED <<known, gone, clock, issued>>

(***************************************************************************)
(* POST /secure/products (API key)                                         *)
(***************************************************************************)
secure_create_product(api_key, product) ==
    LET request == [op |-> "secure_create_product", api_key |-> api_key, product |-> product]
    IN IF ~verify_api_key(api_key)
       THEN Reject(request, Response(403, "Forbidden", TRUE))
       ELSE IF ~Product(product)
       THEN Reject(request, Response(422, "ValidationError", TRUE))
       ELSE /\ nextId <= MaxId
            /\ products' = insert_one(products, nextId, [name |-> product.name, price |-> product.price])
            /\ nextId' = nextId + 1
            /\ req' = request
            /\ resp' = [Response(200, "OK", FALSE) EXCEPT !.id = ObjectIdStr(nextId)]
            /\ calls' = <<"insert_one">>
            /\ before' = products
            /\ UNCHANGED <<known, gone, clock, issued>>

(***************************************************************************)
(* GraphQL mutations (bearer session token)                                *)
(***************************************************************************)
add_product(authorization, product) ==
    LET request == [op |-> "add_product", authorization |-> authorization,
                    product |-> product, at |-> clock]
        user == require_bearer_username_from_request(authorization, clock)
    IN IF ~user.ok
       THEN Reject(request, Response(200, "Unauthorized", TRUE))
       ELSE /\ nextId <= MaxId
            /\ products' = insert_one(products, nextId, [name |-> product.name, price |-> product.price])
            /\ nextId' = nextId + 1
            /\ req' = request
            /\ resp' = [Response(200, "OK", FALSE) EXCEPT !.success = TRUE]
            /\ calls' = <<"insert_one">>
            /\ before' = products
            /\ UNCHANGED <<known, gone, clock, issued>>

update_product(authorization, id, product) ==
    LET request == [op |-> "update_product", authorization |-> authorization, id |-> id,
                    product |-> product, at |-> clock]
        user == require_bearer_username_from_request(authorization, clock)
    IN IF ~user.ok
       THEN Reject(request, Response(200, "Unauthorized", TRUE))
       ELSE IF ~ObjectIdIsValid(id)
       THEN Reject(request, Response(200, "InvalidIdentifier", FALSE))
       ELSE LET oid == ObjectId(id)
                fields == [name |-> product.name, price |-> product.price]
            IN /\ products' = update_one(products, oid, fields)
               /\ req' = request
               /\ resp' = IF update_one_matched(products, oid) = 0
                          THEN Response(200, "NotFound", FALSE)
                          ELSE [Response(200, "OK", FALSE) EXCEPT !.success = TRUE]
               /\ calls' = <<"update_one">>
               /\ before' = products
               /\ UNCHANGED <<known, gone, nextId, clock, issued>>

\* Faulty variant: the document is deleted before the credential is checked.
delete_product_late_check(authorization, id) ==
    LET request == [op |-> "delete_product", authorization |-> authorization, id |-> id,
                    at |-> clock]
        user == require_bearer_username_from_request(authorization, clock)
    IN IF ~ObjectIdIsValid(id)
       THEN Reject(request, Response(200, "InvalidIdentifier", FALSE))
       ELSE LET oid == ObjectId(id)
            IN /\ products' = delete_one(products, oid)
               /\ req' = request
               /\ resp' = IF ~user.ok THEN Response(200, "Unauthorized", TRUE)
                          ELSE IF delete_one_deleted(products, oid) = 0
                          THEN Response(200, "NotFound", FALSE)
                          ELSE [Response(200, "OK", FALSE) EXCEPT !.success = TRUE]
               /\ calls' = <<"delete_one">>
               /\ before' = products
               /\ UNCHANGED <<known, gone, nextId, clock, issued>>

delete_product(authorization, id) ==
    LET request == [op |-> "delete_product", authorization |-> authorization, id |-> id,
                    at |-> clock]
        user == require_bearer_username_from_request(authorization, clock)
    IN IF ~user.ok
       THEN Reject(request, Response(200, "Unauthorized", TRUE))
       ELSE IF ~ObjectIdIsValid(id)
       THEN Reject(request, Response(200, "InvalidIdentifier", FALSE))
       ELSE LET oid == ObjectId(id)
            IN /\ products' = delete_one(products, oid)
               /\ req' = request
               /\ resp' = IF delete_one_deleted(products, oid) = 0
                          THEN Response(200, "NotFound", FALSE)
                          ELSE [Response(200, "OK", FALSE) EXCEPT !.success = TRUE]
               /\ calls' = <<"delete_one">>
               /\ before' = products
               /\ UNCHANGED <<known, gone, nextId, clock, issued>>

(***************************************************************************)
(* GET /products                                                           *)
(***************************************************************************)
\* Faulty variant: limit is declared without its bounds.
list_products_parameters_unbounded_limit(p) ==
    IF p.skip < SKIP_MIN \/ p.skip > SKIP_MAX THEN "InvalidValue"
    ELSE IF p.order \notin {"asc", "desc"} THEN "InvalidOrder"
    ELSE IF p.min_price # <<>> /\ p.min_price[1] < 0 THEN "InvalidValue"
    ELSE IF p.max_price # <<>> /\ p.max_price[1] < 0 THEN "InvalidValue"
    ELSE ""

\* The declared constraints of the query parameters, checked by the
\* framework before the handler runs: "" when all pass, else the failure.
list_products_parameters(p) ==
    IF p.limit < LIMIT_MIN \/ p.limit > LIMIT_MAX THEN "InvalidValue"
    ELSE IF p.skip < SKIP_MIN \/ p.skip > SKIP_MAX THEN "InvalidValue"
    ELSE IF p.order \notin {"asc", "desc"} THEN "InvalidOrder"
    ELSE IF p.min_price # <<>> /\ p.min_price[1] < 0 THEN "InvalidValue"
    ELSE IF p.max_price # <<>> /\ p.max_price[1] < 0 THEN "InvalidValue"
    ELSE ""

RestItem(col, d) == [id |-> ObjectIdStr(d), name |-> col[d].name, price |-> col[d].price]

GraphQLItem(col, d) == [name |-> col[d].name, price |-> col[d].price]

list_products(p) ==
    LET request == [op |-> "list_products", params |-> p]
        invalid == list_products_parameters(p)
    IN IF invalid # ""
       THEN Reject(request, Response(422, invalid, TRUE))
       ELSE IF p.sort_by \notin SORTABLE_FIELDS
       THEN Reject(request, Response(400, "InvalidSortField", TRUE))
       ELSE IF (p.min_price # <<>> /\ p.max_price # <<>>) /\ p.min_price[1] > p.max_price[1]
       THEN Reject(request, Response(400, "InvalidRange", TRUE))
       ELSE LET query == BuildQuery(p.name_contains, p.min_price, p.max_price)
                sort_dir == IF p.order = "asc" THEN 1 ELSE -1
            IN \E delivery \in CursorOrders(products, find_matching(products, query), p.sort_by, sort_dir) :
                 LET page == Page(delivery, p.skip, p.limit)
                 IN /\ req' = request
                    /\ resp' = [Response(200, "OK", FALSE) EXCEPT
                                  !.items = [i \in DOMAIN page |-> RestItem(products, page[i])]]
                    /\ calls' = <<"find">>
                    /\ before' = products
                    /\ UNCHANGED <<known, gone, products, nextId, clock, issued>>

(***************************************************************************)
(* GraphQL query allProducts                                               *)
(***************************************************************************)
all_products(p) ==
    LET request == [op |-> "all_products", params |-> p]
    IN IF p.limit < LIMIT_MIN \/ p.limit > LIMIT_MAX
       THEN Reject(request, Response(200, "InvalidValue", TRUE))
       ELSE IF p.skip < SKIP_MIN \/ p.skip > SKIP_MAX
       THEN Reject(request, Response(200, "InvalidValue", TRUE))
       ELSE IF p.sort_by \notin SORTABLE_FIELDS
       THEN Reject(request, Response(200, "InvalidSortField", TRUE))
       ELSE IF LowerWord[p.order] \notin {"asc", "desc"}
       THEN Reject(request, Response(200, "InvalidOrder", TRUE))
       ELSE IF (p.min_price # <<>> /\ p.max_price # <<>>) /\ p.min_price[1] > p.max_price[1]
       THEN Reject(request, Response(200, "InvalidRange", TRUE))
       ELSE LET query == BuildQuery(p.name_contains, p.min_price, p.max_price)
                sort_dir == IF LowerWord[p.order] = "asc" THEN 1 ELSE -1
            IN \E delivery \in CursorOrders(products, find_matching(products, query), p.sort_by, sort_dir) :
                 LET page == Page(delivery, p.skip, p.limit)
                 IN /\ req' = request
                    /\ resp' = [Response(200, "OK", FALSE) EXCEPT
                                  !.items = [i \in DOMAIN page |-> GraphQLItem(products, page[i])]]
                    /\ calls' = <<"find">>
                    /\ before' = products
                    /\ UNCHANGED <<known, gone, products, nextId, clock, issued>>

(***************************************************************************)
(* The passing of time.                                                    *)
(***************************************************************************)
Tick ==
    /\ Idle
    /\ clock + TickStep <= MaxClock
    /\ clock' = clock + TickStep
    /\ UNCHANGED <<products, nextId, issued, req, resp, calls, before, known, gone>>

\* What the client learns from the response it receives: the product it now
\* holds under an identifier, and the identifiers it was told are deleted.
Learned ==
    IF req.op \in {"create_product", "secure_create_product"} /\ resp.kind = "OK"
    THEN [i \in (DOMAIN known) \cup {resp.id} |-> IF i = resp.id THEN req.product ELSE known[i]]
    ELSE IF req.op = "update_product" /\ resp.success
    THEN [i \in (DOMAIN known) \cup {req.id} |-> IF i = req.id THEN req.product ELSE known[i]]
    ELSE IF req.op = "delete_product" /\ resp.success
    THEN [i \in (DOMAIN known) \ {req.id} |-> known[i]]
    ELSE known

\* The response has been sent: the request scope is gone.
Complete ==
    /\ ~Idle
    /\ known' = Learned
    /\ gone' = IF req.op = "delete_product" /\ resp.success THEN gone \cup {req.id} ELSE gone
    /\ req' = NoRequest
    /\ resp' = NoResponse
    /\ calls' = <<>>
    /\ before' = products
    /\ UNCHANGED <<products, nextId, clock, issued>>

Login == Idle /\ \E c \in Logins : login(c[1], c[2])
CreateProduct == Idle /\ \E b \in Bodies : create_product(b)
SecureCreateProduct == Idle /\ \E k \in ApiKeys, b \in Bodies : secure_create_product(k, b)
AddProduct == Idle /\ \E h \in Headers, b \in Bodies : add_product(h, b)
UpdateProduct == Idle /\ \E h \in Headers, i \in IdStrings, b \in Bodies : update_product(h, i, b)
DeleteProduct == Idle /\ \E h \in Headers, i \in IdStrings : delete_product(h, i)

ListProducts == Idle /\ \E p \in SingleListParams : list_products(p)
AllProducts == Idle /\ \E p \in SingleListParams : all_products(p)

\* Spec: every handler, with requests served at one instant (the expired and
\* foreign tokens are among the headers).  SpecToken lets the clock advance.
Next ==
    \/ Complete
    \/ Login
    \/ CreateProduct
    \/ SecureCreateProduct
    \/ AddProduct
    \/ UpdateProduct
    \/ DeleteProduct
    \/ ListProducts
    \/ AllProducts

Spec == Init /\ [][Next]_vars

(***************************************************************************)
(* Session tokens over time: the clock advances between requests; the      *)
(* gated mutations are tried with every header at every instant.           *)
(***************************************************************************)
TimedAddProduct == Idle /\ \E h \in Headers : add_product(h, [name |-> <<"A", "b">>, price |-> 1])
TimedDeleteProduct == Idle /\ \E h \in Headers, i \in IdStrings : delete_product(h, i)

NextToken ==
    \/ Tick
    \/ Complete
    \/ Login
    \/ TimedAddProduct
    \/ TimedDeleteProduct

SpecToken == Init /\ [][NextToken]_vars

(***************************************************************************)
(* The read path on its own: collections built by the public create, and   *)
(* list requests that give up to MaxAxes axes.                          *)
(***************************************************************************)
SeedProduct == Idle /\ \E b \in { x \in Bodies : Product(x) } : create_product(b)
ListProductsWide == Idle /\ \E p \in WideListParams : list_products(p)
AllProductsWide == Idle /\ \E p \in WideListParams : all_products(p)

NextList ==
    \/ Complete
    \/ SeedProduct
    \/ ListProductsWide
    \/ AllProductsWide

SpecList == Init /\ [][NextList]_vars

(***************************************************************************)
(* Vocabulary of the properties.  These predicates restate, from the       *)
(* requirements, what a request presents; they use none of the handlers'   *)
(* own checks.                                                             *)
(***************************************************************************)
WriteCalls == {"insert_one", "update_one", "delete_one"}

BearerOps == {"add_product", "update_product", "delete_product"}

ListOps == {"list_products", "all_products"}

IssuedWrite == \E i \in DOMAIN calls : calls[i] \in WriteCalls

Untouched == calls = <<>> /\ products = before

KeyInAllowSet(k) == k # <<>> /\ k[1] \in {"secret123", "topkey456"}

BearerPrefixed(h) == h.present /\ h.scheme \in {"Bearer", "bearer", "BEARER"}

\* Signed with the process secret and not past its expiry at time now.
TokenVerifies(t, now) == t.decodable /\ t.key = "super-secret-key" /\ ~(t.exp < now)

SubjectKnown(t) == t.sub \in {"alice"}

\* The bearer check as the mutation gate performs it.
BearerPasses(h, now) == BearerPrefixed(h) /\ TokenVerifies(h.token, now) /\ h.token.sub # ""

\* The entity invariants as the Product model declares them.
BodyValid(b) == Len(b.name) >= 2 /\ Len(b.name) <= 80 /\ b.price >= 0

HexChars == {"0", "1", "2", "3", "4", "5", "6", "7", "8", "9",
             "a", "b", "c", "d", "e", "f", "A", "B", "C", "D", "E", "F"}

WellFormedId(s) == Len(s) = 24 /\ \A i \in 1..Len(s) : s[i] \in HexChars

\* The documents of col that the external identifier s names.
Named(col, s) == { d \in DOMAIN col : ObjectIdStr(d) = s }

\* The request inserted exactly one document, with body b, under identifier s.
InsertedAs(s, b) ==
    \E d \in (DOMAIN products) \ (DOMAIN before) :
        /\ ObjectIdStr(d) = s
        /\ DOMAIN products = (DOMAIN before) \cup {d}
        /\ products[d] = [name |-> b.name, price |-> b.price]
        /\ \A e \in DOMAIN before : products[e] = before[e]

InsertedOne(b) ==
    \E d \in (DOMAIN products) \ (DOMAIN before) : InsertedAs(ObjectIdStr(d), b)

FailureKinds ==
    {"InvalidValue", "InvalidRange", "InvalidSortField", "InvalidOrder",
     "InvalidIdentifier", "Unauthorized", "Forbidden"}

\* C2: a request that ends in a validation or authentication failure issued no
\* collection call and left the collection as it was.
C2_FailFast == resp.kind \in FailureKinds => Untouched

\* An update with a passing token and a malformed identifier, on a non-empty collection.
C2_Witness ==
    /\ req.op = "update_product"
    /\ resp.kind = "InvalidIdentifier"
    /\ before # << >>

(***************************************************************************)
(* C3.  The bearer check that gates the mutations accepts exactly a token  *)
(* behind the Bearer prefix that decodes, verifies (signature and expiry)  *)
(* and whose subject is a known identity; everything else is Unauthorized  *)
(* and the mutation does not run.                                          *)
(***************************************************************************)
C3_BearerGate ==
    req.op \in BearerOps =>
        /\ (resp.kind # "Unauthorized") <=>
              /\ BearerPrefixed(req.authorization)
              /\ TokenVerifies(req.authorization.token, req.at)
              /\ SubjectKnown(req.authorization.token)
        /\ resp.kind = "Unauthorized" => Untouched

(***************************************************************************)
(* C4.  A session token issued for a correct username and password carries *)
(* that username as its subject and expires 30 minutes after it was        *)
(* issued; presented to a gated mutation before its expiry it is accepted  *)
(* and the mutation runs, presented after its expiry it is rejected and    *)
(* nothing changes, whatever was done in between.                          *)
(***************************************************************************)
IssuedTo(h) == { i \in issued : h = Header("Bearer", i.token) }

\* C4: an issued token has sub = username and exp = issue time + 30; it is accepted
\* before exp and rejected after it.
C4_SessionTokenLifetime ==
    /\ (req.op = "login" /\ <<req.username, req.password>> = <<"alice", "wonderland">>) =>
          /\ resp.kind = "OK"
          /\ Len(resp.token) = 1
          /\ resp.token[1].decodable
          /\ resp.token[1].key = "super-secret-key"
          /\ resp.token[1].sub = req.username
          /\ resp.token[1].exp = req.at + 30
    /\ \A i \in issued : i.token.sub = "alice" /\ i.token.exp = i.at + 30
    /\ req.op \in BearerOps =>
          \A i \in IssuedTo(req.authorization) :
              /\ req.at < i.at + 30 =>
                    /\ resp.kind # "Unauthorized"
                    /\ req.op = "add_product" => (resp.success /\ InsertedOne(req.product))
              /\ req.at > i.at + 30 => (resp.kind = "Unauthorized" /\ Untouched)

\* The issued token, presented after its expiry with other requests served since.
C4_Witness ==
    /\ req.op = "add_product"
    /\ \E i \in IssuedTo(req.authorization) : req.at > i.at + 30
    /\ resp.kind = "Unauthorized"
    /\ products # << >>

(***************************************************************************)
(* C5.  The secured create accepts exactly the keys of the allow-set,      *)
(* compared as given: an absent, empty or other key ends in Forbidden      *)
(* (403) with nothing inserted; with a key of the set the product is       *)
(* inserted and its identifier returned.                                   *)
(***************************************************************************)
C5_ApiKeyAllowSet ==
    req.op = "secure_create_product" =>
        /\ ~KeyInAllowSet(req.api_key) =>
              (resp.kind = "Forbidden" /\ resp.status = 403 /\ Untouched)
        /\ (KeyInAllowSet(req.api_key) /\ BodyValid(req.product)) =>
              (resp.kind = "OK" /\ resp.status = 200 /\ InsertedAs(resp.id, req.product))

\* The second key of the set creates a product in a non-empty collection.
C5_Witness ==
    /\ req.op = "secure_create_product"
    /\ req.api_key = <<"topkey456">>
    /\ resp.kind = "OK"
    /\ before # << >>
    /\ products # before

(***************************************************************************)
(* C6.  What was created under an identifier and then updated is what a    *)
(* read returns for that identifier; once a delete of an identifier has    *)
(* succeeded, an authorized update or delete of it ends in NotFound and    *)
(* no read returns it.                                                     *)
(***************************************************************************)
ItemsOf(r) == { r.items[i] : i \in DOMAIN r.items }

\* C6: reads return what was last acknowledged under an identifier; a deleted
\* identifier is NotFound for update and delete and appears in no read.
C6_RoundTrip ==
    /\ (req.op = "list_products" /\ resp.kind = "OK") =>
          /\ \A it \in ItemsOf(resp) :
                /\ it.id \notin gone
                /\ it.id \in DOMAIN known =>
                      (it.name = known[it.id].name /\ it.price = known[it.id].price)
          /\ req.params = DefaultParams =>
                \A i \in DOMAIN known : \E it \in ItemsOf(resp) : it.id = i
    /\ (req.op \in {"update_product", "delete_product"} /\ resp.kind # "Unauthorized"
          /\ req.id \in gone) => (resp.kind = "NotFound" /\ products = before)
    /\ \A i \in gone : Named(products, i) = {}

\* An authorized update of an identifier whose delete had succeeded.
C6_Witness ==
    /\ req.op = "update_product"
    /\ req.id \in gone
    /\ resp.kind = "NotFound"
    /\ products # << >>

(***************************************************************************)
(* C7.  An authorized update or delete: a malformed identifier gives the   *)
(* result value InvalidIdentifier (no error raised, success false) and no  *)
(* collection call; a well-formed identifier that names no document gives  *)
(* the result value NotFound and the collection is unchanged; otherwise    *)
(* update replaces the name and price of that document only, delete        *)
(* removes that document only, and the result is success.                  *)
(***************************************************************************)
C7_UpdateDeleteOutcomes ==
    (req.op \in {"update_product", "delete_product"} /\ resp.kind # "Unauthorized") =>
        IF ~WellFormedId(req.id)
        THEN resp.kind = "InvalidIdentifier" /\ ~resp.raised /\ ~resp.success /\ Untouched
        ELSE IF Named(before, req.id) = {}
        THEN resp.kind = "NotFound" /\ ~resp.raised /\ ~resp.success /\ products = before
        ELSE \E d \in Named(before, req.id) :
                /\ resp.kind = "OK" /\ resp.success /\ ~resp.raised
                /\ IF req.op = "update_product"
                   THEN /\ DOMAIN products = DOMAIN before
                        /\ products[d] = [name |-> req.product.name, price |-> req.product.price]
                        /\ \A e \in (DOMAIN before) \ {d} : products[e] = before[e]
                   ELSE /\ DOMAIN products = (DOMAIN before) \ {d}
                        /\ \A e \in DOMAIN products : products[e] = before[e]

\* A successful update of one of two documents.
C7_Witness ==
    /\ req.op = "update_product"
    /\ resp.success
    /\ Cardinality(DOMAIN before) = 2
    /\ products # before

(***************************************************************************)
(* C8 (as amended).  A limit outside [1, 200] fails the list operation on  *)
(* both surfaces with InvalidValue, before any read of the collection;     *)
(* neither surface clamps it.                                              *)
(***************************************************************************)
LimitOutOfRange(p) == p.limit < 1 \/ p.limit > 200

OthersValidBesidesLimit(p) ==
    /\ p.skip >= 0 /\ p.skip <= 10000
    /\ p.sort_by \in {"name", "price"}
    /\ p.order \in {"asc", "desc"}
    /\ p.min_price = <<>> \/ p.min_price[1] >= 0
    /\ p.max_price = <<>> \/ p.max_price[1] >= 0
    /\ (p.min_price = <<>> \/ p.max_price = <<>>) \/ p.min_price[1] <= p.max_price[1]

Clamp(n) == IF n < 1 THEN 1 ELSE IF n > 200 THEN 200 ELSE n

OrderAccepted(op, p) ==
    IF op = "list_products" THEN p.order \in {"asc", "desc"}
    ELSE p.order \in {"asc", "desc", "ASC", "DESC", "Desc"}

\* Everything but the relation between the two bounds is acceptable.
OthersValidBesidesRange(op, p) ==
    /\ p.limit >= 1 /\ p.limit <= 200
    /\ p.skip >= 0 /\ p.skip <= 10000
    /\ p.sort_by \in {"name", "price"}
    /\ OrderAccepted(op, p)
    /\ op = "list_products" => (p.min_price = <<>> \/ p.min_price[1] >= 0)
    /\ op = "list_products" => (p.max_price = <<>> \/ p.max_price[1] >= 0)

Inverted(p) == p.min_price # <<>> /\ p.max_price # <<>> /\ p.min_price[1] > p.max_price[1]

InInterval(price, p) ==
    /\ p.min_price = <<>> \/ price >= p.min_price[1]
    /\ p.max_price = <<>> \/ price <= p.max_price[1]

\* C9: min > max is InvalidRange; otherwise the result holds exactly the products
\* priced within the inclusive bounds.
C9_PriceRange ==
    (req.op \in ListOps /\ (req.params.min_price # <<>> \/ req.params.max_price # <<>>)
        /\ OthersValidBesidesRange(req.op, req.params)) =>
        IF Inverted(req.params)
        THEN resp.kind = "InvalidRange" /\ resp.raised /\ Untouched
        ELSE /\ resp.kind = "OK"
             /\ \A it \in ItemsOf(resp) : InInterval(it.price, req.params)
             /\ \A it \in ItemsOf(resp) :
                   \E d \in DOMAIN products : products[d].name = it.name /\ products[d].price = it.price
             /\ (req.params.name_contains = <<>> /\ req.params.skip = 0
                   /\ req.params.limit >= Cardinality(DOMAIN products)) =>
                   Len(resp.items) =
                       Cardinality({ d \in DOMAIN products : InInterval(products[d].price, req.params) })

\* minPrice = maxPrice = 1 keeps the product priced 1 and drops the one priced 2.
C9_Witness ==
    /\ req.op = "all_products"
    /\ req.params.min_price = <<1>>
    /\ req.params.max_price = <<1>>
    /\ Cardinality(DOMAIN products) = 2
    /\ Len(resp.items) = 1

(***************************************************************************)
(* C10.  On every create path, presented with an accepted credential, a    *)
(* body with a non-empty name within the length bound and a non-negative   *)
(* price is inserted, and any other body fails with ValidationError and    *)
(* inserts nothing; so every product a create path puts in the collection  *)
(* has such a name and price.                                              *)
(***************************************************************************)
EntityInvariant(b) == Len(b.name) >= 1 /\ Len(b.name) <= 80 /\ b.price >= 0

CreateAccepted ==
    \/ req.op = "create_product"
    \/ req.op = "secure_create_product" /\ KeyInAllowSet(req.api_key)
    \/ /\ req.op = "add_product"
       /\ BearerPrefixed(req.authorization)
       /\ TokenVerifies(req.authorization.token, req.at)
       /\ SubjectKnown(req.authorization.token)

\* C10: every create path inserts a body that meets the entity invariants and
\* fails with ValidationError, inserting nothing, on any other body.
C10_CreateValidates ==
    CreateAccepted =>
        IF EntityInvariant(req.product)
        THEN resp.kind = "OK" /\ InsertedOne(req.product) /\ EntityInvariant(products[nextId - 1])
        ELSE resp.kind = "ValidationError" /\ Untouched

(***************************************************************************)
(* C11.  A list request on either surface in which minPrice or maxPrice is *)
(* negative fails with InvalidValue, and no read is issued against the     *)
(* collection.  (The 422 response of the request/response surface lists    *)
(* every parameter that failed; the kind recorded for it is that of the    *)
(* first one, so a rejected order word may stand in front of the bound.)   *)
(***************************************************************************)
NegativeBound(p) ==
    \/ p.min_price # <<>> /\ p.min_price[1] < 0
    \/ p.max_price # <<>> /\ p.max_price[1] < 0

\* C11: a negative minPrice or maxPrice fails the list request with InvalidValue
\* on both surfaces, with no read of the collection.
C11_NegativeBoundsRejected ==
    (req.op \in ListOps /\ NegativeBound(req.params)) =>
        /\ resp.raised
        /\ Untouched
        /\ \/ resp.kind = "InvalidValue"
           \/ /\ req.op = "list_products"
              /\ resp.status = 422
              /\ req.params.order \notin {"asc", "desc"}

(***************************************************************************)
(* C12.  The name filter keeps a product exactly when its name contains    *)
(* the given text as a substring, letters compared without regard to case; *)
(* a nameContains that is empty once surrounding whitespace is trimmed     *)
(* filters nothing, so the result is that of the same request without      *)
(* nameContains, and the request is not an error.  (Requests whose other   *)
(* parameters the surface accepts.)                                        *)
(***************************************************************************)
FoldChar(c) ==
    CASE c = "A" -> "a" [] c = "B" -> "b" [] c = "C" -> "c"
      [] c = "D" -> "d" [] c = "E" -> "e" [] c = "F" -> "f"
      [] OTHER -> c

RECURSIVE TrimLeft(_)
TrimLeft(s) == IF s # <<>> /\ Head(s) = " " THEN TrimLeft(Tail(s)) ELSE s

RECURSIVE TrimRight(_)
TrimRight(s) ==
    IF s # <<>> /\ s[Len(s)] = " " THEN TrimRight(SubSeq(s, 1, Len(s) - 1)) ELSE s

Trimmed(s) == TrimRight(TrimLeft(s))

\* text occurs in name as a run of consecutive characters, case folded.
ContainsFolded(name, text) ==
    \E i \in 0..(Len(name) - Len(text)) :
        \A k \in 1..Len(text) : FoldChar(name[i + k]) = FoldChar(text[k])

NoNameFilter(p) == p.name_contains = <<>> \/ Trimmed(p.name_contains[1]) = <<>>

\* The documents the request selects, by name and by price.
Selected(p) ==
    { d \in DOMAIN products :
        /\ NoNameFilter(p) \/ ContainsFolded(products[d].name, p.name_contains[1])
        /\ InInterval(products[d].price, p) }

\* The items a page of `limit` after `skip` holds when `n` documents are selected.
PageLength(n, skip, limit) ==
    IF n <= skip THEN 0 ELSE IF n - skip < limit THEN n - skip ELSE limit

\* C12: the name filter is a case-insensitive substring test, and a nameContains
\* that trims to the empty string is no filter and no error.
C12_NameFilter ==
    (req.op \in ListOps /\ OthersValidBesidesRange(req.op, req.params)
        /\ ~Inverted(req.params)) =>
        /\ resp.kind = "OK"
        /\ \A it \in ItemsOf(resp) :
              \E d \in Selected(req.params) :
                  products[d].name = it.name /\ products[d].price = it.price
        /\ Len(resp.items) =
              PageLength(Cardinality(Selected(req.params)), req.params.skip, req.params.limit)

(***************************************************************************)
(* C13.  On both surfaces the order word is read without regard to case:   *)
(* a word that lower-cases to "asc" sorts ascending, one that lower-cases  *)
(* to "desc" sorts descending, any other word fails with InvalidOrder, and *)
(* a request without order sorts ascending.  (Requests whose other         *)
(* parameters the surface accepts.)                                        *)
(***************************************************************************)
AscendingWords == {"asc", "ASC", "Asc"}

DescendingWords == {"desc", "DESC", "Desc"}

\* Everything but the order word is acceptable to the surface.
OthersValidBesidesOrder(op, p) ==
    /\ p.limit >= 1 /\ p.limit <= 200
    /\ p.skip >= 0 /\ p.skip <= 10000
    /\ p.sort_by \in {"name", "price"}
    /\ op = "list_products" => ~NegativeBound(p)
    /\ ~Inverted(p)

\* Item a does not come after item b in ascending order of the sort field.
NotAfter(sort_by, a, b) ==
    IF sort_by = "price" THEN a.price <= b.price ELSE ~StrLess(b.name, a.name)

Ascending(items, sort_by) ==
    \A i, j \in DOMAIN items : i < j => NotAfter(sort_by, items[i], items[j])

Descending(items, sort_by) ==
    \A i, j \in DOMAIN items : i < j => NotAfter(sort_by, items[j], items[i])

\* C13: order is case-insensitive on both surfaces; "asc" ascending, "desc"
\* descending, anything else InvalidOrder, absent ascending.
C13_OrderCaseInsensitive ==
    (req.op \in ListOps /\ OthersValidBesidesOrder(req.op, req.params)) =>
        IF req.params.order \in AscendingWords
        THEN resp.kind = "OK" /\ Ascending(resp.items, req.params.sort_by)
        ELSE IF req.params.order \in DescendingWords
        THEN resp.kind = "OK" /\ Descending(resp.items, req.params.sort_by)
        ELSE resp.kind = "InvalidOrder" /\ resp.raised /\ Untouched

====
